---------------------------- MODULE Spec2Model ----------------------------
(***************************************************************************)
(* A model of the GestorVideos desktop downloader.  The repository holds   *)
(* two MVC applications around the yt-dlp library:                         *)
(*   - the expanded version: VideoDownloaderModel (src/models/),           *)
(*     VideoDownloaderController (src/controllers/), VideoDownloaderView   *)
(*     (src/views/);                                                       *)
(*   - the minimal version: DescargadorModelo (src/modelo.py),             *)
(*     DescargadorControlador (src/controlador.py), DescargadorVista       *)
(*     (src/vista.py).                                                     *)
(* The library calls (extract_info, download) are the environment: a call  *)
(* returns or raises, and download may call the progress hook while it     *)
(* runs.  Strings the code inspects character by character (URLs) are      *)
(* sequences of one-character strings; log lines and dialog texts are      *)
(* strings without the pictographs the code prefixes to them.  The log     *)
(* widget is kept as the bag of the lines written to it: how many times    *)
(* each line was appended, without their order or time stamps.             *)
(***************************************************************************)
EXTENDS Integers, Sequences, FiniteSets, Bags, TLC

(***************************************************************************)
(* Bounds of the model.                                                    *)
(***************************************************************************)
\* Worker threads start_download may launch in one behaviour.
MaxThreads == 2
\* The same, in the specification with fairness (FairSpec).
MaxLiveThreads == 1
\* The same, in the specification of the progress relay (SpecRelay).
MaxRelayThreads == 1
\* Progress events the library passes to the progress hook in one behaviour.
MaxEvents == 2
\* Pieces a URL handed to validate_url is assembled from.
MaxParts == 2
\* Worker threads the expanded application launches in one behaviour (SpecApp).
MaxAppThreads == 1
\* Metadata requests (Obtener Info) that reach the library in one behaviour of
\* the expanded application.
MaxInfoRequests == 1
\* Requests of the user that reach the model's start_download or the library's
\* extract_info in one behaviour of the expanded application.
MaxAppRequests == 2
\* Download threads the minimal version launches in one behaviour (SpecMin).
MaxMinThreads == 2
\* Progress events the library passes to _hook_progreso in one behaviour.
MaxMinEvents == 1
\* The longest duration, in seconds, handed to _format_duration.
MaxDuration == 125
\* The most components a download_path handed to get_ydl_options has.
MaxPathDepth == 2

(***************************************************************************)
(* Character strings.                                                      *)
(***************************************************************************)
\* The characters str.strip() removes that the inputs below can hold.
Whitespace == {" ", "\t", "\n"}

UpperLetters ==
  <<"A", "B", "C", "D", "E", "F", "G", "H", "I", "J", "K", "L", "M",
    "N", "O", "P", "Q", "R", "S", "T", "U", "V", "W", "X", "Y", "Z">>

LowerLetters ==
  <<"a", "b", "c", "d", "e", "f", "g", "h", "i", "j", "k", "l", "m",
    "n", "o", "p", "q", "r", "s", "t", "u", "v", "w", "x", "y", "z">>

\* str.lower() on one character.
LowerChar(c) ==
  IF \E i \in 1..26 : UpperLetters[i] = c
    THEN LowerLetters[CHOOSE i \in 1..26 : UpperLetters[i] = c]
    ELSE c

\* str.lower().
lower(s) == [i \in 1..Len(s) |-> LowerChar(s[i])]

\* str.strip(): leading and trailing whitespace removed.
RECURSIVE lstrip(_)
lstrip(s) ==
  IF s # <<>> /\ Head(s) \in Whitespace THEN lstrip(Tail(s)) ELSE s

RECURSIVE rstrip(_)
rstrip(s) ==
  IF s # <<>> /\ s[Len(s)] \in Whitespace
    THEN rstrip(SubSeq(s, 1, Len(s) - 1))
    ELSE s

strip(s) == rstrip(lstrip(s))

\* Python's  pattern in s  on strings: s holds pattern as a contiguous run.
Contains(s, pattern) ==
  \E i \in 0..(Len(s) - Len(pattern)) : SubSeq(s, i + 1, i + Len(pattern)) = pattern

(***************************************************************************)
(* VideoDownloaderModel.validate_url                                       *)
(***************************************************************************)
valid_patterns ==
  << <<"y","o","u","t","u","b","e",".","c","o","m">>,
     <<"y","o","u","t","u",".","b","e">>,
     <<"v","i","m","e","o",".","c","o","m">>,
     <<"d","a","i","l","y","m","o","t","i","o","n",".","c","o","m">>,
     <<"t","w","i","t","c","h",".","t","v">>,
     <<"f","a","c","e","b","o","o","k",".","c","o","m">>,
     <<"i","n","s","t","a","g","r","a","m",".","c","o","m">>,
     <<"t","i","k","t","o","k",".","c","o","m">> >>

\* A plausible slip: the patterns are looked for in the URL as typed.
validate_url_case_sensitive(url) ==
  IF url = <<>> \/ strip(url) = <<>>
    THEN FALSE
    ELSE \E k \in 1..Len(valid_patterns) : Contains(url, valid_patterns[k])

validate_url(url) ==
  IF url = <<>> \/ strip(url) = <<>>
    THEN FALSE
    ELSE LET url_lower == lower(url)
         IN  \E k \in 1..Len(valid_patterns) : Contains(url_lower, valid_patterns[k])


\* The text of a character sequence, as an f-string interpolates it.
RECURSIVE Join(_)
Join(s) == IF s = <<>> THEN "" ELSE Head(s) \o Join(Tail(s))

(***************************************************************************)
(* VideoDownloaderModel._format_duration                                   *)
(***************************************************************************)
\* The format specification 02d: a non-negative integer in decimal, padded
\* with a zero on the left to two characters.
Format02d(n) == IF n < 10 THEN "0" \o ToString(n) ELSE ToString(n)

\* The plain interpolation of an integer in an f-string.
FormatInt(n) == ToString(n)

\* _format_duration's duration when it is None.
NoDuration == -1

\* _format_duration.  `not duration` holds for None and for 0.
_format_duration(duration) ==
  IF duration = NoDuration \/ duration = 0
    THEN "00:00"
    ELSE LET minutos == duration \div 60
             segundos == duration % 60
         IN  FormatInt(minutos) \o ":" \o Format02d(segundos)

(***************************************************************************)
(* VideoDownloaderModel.get_ydl_options                                    *)
(***************************************************************************)
\* A plausible slip: a quality that is not in the map gets the best format.
format_map_get_default_best(quality) ==
  CASE quality = "480p" -> "best[height<=480]"
    [] quality = "720p" -> "best[height<=720]"
    [] quality = "1080p" -> "best[height<=1080]"
    [] quality = "Mejor disponible" -> "best"
    [] quality = "Audio únicamente" -> "bestaudio/best"
    [] OTHER -> "best"

\* format_map.get(quality, 'best[height<=720]')
format_map_get(quality) ==
  CASE quality = "480p" -> "best[height<=480]"
    [] quality = "720p" -> "best[height<=720]"
    [] quality = "1080p" -> "best[height<=1080]"
    [] quality = "Mejor disponible" -> "best"
    [] quality = "Audio únicamente" -> "bestaudio/best"
    [] OTHER -> "best[height<=720]"

\* get_ydl_options.  Paths are the sequences of their components:
\* Path(download_path) / 'a/b' is download_path followed by a and b.
get_ydl_options(download_path, quality, download_type) ==
  LET ydl_opts == [writeinfojson |-> FALSE,
                   writeautomaticsub |-> FALSE,
                   ignoreerrors |-> TRUE,
                   progress_hooks |-> <<"_progress_hook">>,
                   format |-> format_map_get(quality)]
  IN  IF download_type = "playlist"
        THEN [noplaylist |-> FALSE,
              outtmpl |-> download_path \o
                 <<"%(playlist_title)s", "%(playlist_index)02d - %(title)s.%(ext)s">>]
             @@ ydl_opts
        ELSE [noplaylist |-> TRUE,
              outtmpl |-> download_path \o <<"%(title)s.%(ext)s">>]
             @@ ydl_opts

(***************************************************************************)
(* State.                                                                  *)
(***************************************************************************)
VARIABLES
  \* VideoDownloaderModel
  is_downloading,           \* self.is_downloading
  current_download_thread,  \* self.current_download_thread: a thread id, or None
  progress_callback,        \* TRUE when a callback is registered, FALSE for None
  log_callback,
  completion_callback,
  error_callback,
  threads,                  \* the threads start_download has launched, by id
  call,                     \* the last call of start_download and how it ended
  cancelled_in_flight,      \* history: the threads inside ydl.download when a
                            \* cancel_download cleared the flag
  lib_calls,                \* history: the library calls made so far in either
                            \* version, each with the kind of thread that made it
  \* the progress relay
  hook_in,                  \* what the library passed to _progress_hook, in order
  progress_out,             \* what _on_download_progress received, in order
  \* VideoDownloaderView
  buttons,                  \* state of download_btn, info_btn, cancel_btn
  progress_bar,             \* mode, value and animation of the progress bar
  log_text,                 \* the lines add_log_message appended since start-up, as a bag
  dialog,                   \* the dialog shown last
  view_callers,             \* the kinds of thread that have run a view method
  \* VideoDownloaderModel.validate_url as a function
  vu_url,                   \* the URL last handed to validate_url
  vu_ret,                   \* what it returned
  \* VideoDownloaderModel._format_duration and get_ydl_options as functions
  fd_duration,              \* the duration last handed to _format_duration
  fd_ret,                   \* what it returned
  opt_args,                 \* the arguments last handed to get_ydl_options
  opt_ret,                  \* what it returned
  \* VideoDownloaderController and the input widgets of VideoDownloaderView
  url_entry,                \* the text of the URL field
  current_video_info,       \* self.current_video_info
  is_playlist,              \* self.is_playlist
  ui_thread,                \* where the UI thread of the expanded application is
  info_requests,            \* how many times _on_get_info has called the library
  \* the minimal version
  modelo,                   \* DescargadorModelo: which callbacks are set
  vista,                    \* DescargadorVista: its widgets
  hilos,                    \* the threads descargar_video / descargar_audio launched
  ui,                       \* where the UI thread of the minimal version is
  retorno,                  \* what validar_url and obtener_informacion_video
                            \* returned last, and how the library call in them ended
  eventos                   \* how many times the library has called _hook_progreso

modelVars == <<is_downloading, current_download_thread, progress_callback,
               log_callback, completion_callback, error_callback, threads, call,
               cancelled_in_flight>>
relayVars == <<hook_in, progress_out>>
viewVars  == <<buttons, progress_bar, log_text, dialog, view_callers>>
urlVars   == <<vu_url, vu_ret>>
pureVars  == <<fd_duration, fd_ret, opt_args, opt_ret>>
appVars   == <<url_entry, current_video_info, is_playlist, ui_thread, info_requests>>
minVars   == <<modelo, vista, hilos, ui, retorno, eventos>>
\* What the model class and the worker threads of the expanded version leave alone.
idleVars  == <<urlVars, pureVars, appVars, minVars>>
restVars  == <<idleVars, lib_calls>>
vars      == <<modelVars, relayVars, viewVars, lib_calls, urlVars, pureVars, appVars,
               minVars>>

None == "None"
\* current_download_thread when it is None (thread ids start at 1).
NoThread == 0
\* update_progress's percentage when it is None.
NoPercentage == -1

(***************************************************************************)
(* Inputs.                                                                 *)
(***************************************************************************)
UrlA == <<"y","o","u","t","u",".","b","e","/","a">>
UrlB == <<"V","i","m","e","o",".","c","o","m","/","b">>

\* A download_path Path.mkdir(parents=True, exist_ok=True) cannot create
\* (a component of it is a regular file): mkdir raises.
UncreatablePath == "/dev/null/descargas"
DefaultPath == "./descargas"

Creatable(download_path) == download_path # UncreatablePath

\* The argument tuples start_download is called with.
Requests ==
  { [url |-> UrlA, download_path |-> DefaultPath, quality |-> "720p",
     download_type |-> "single"],
    [url |-> UrlB, download_path |-> DefaultPath, quality |-> "Audio únicamente",
     download_type |-> "playlist"],
    [url |-> UrlA, download_path |-> UncreatablePath, quality |-> "720p",
     download_type |-> "single"] }

\* The texts of the exceptions the library raises.
ErrTexts == {"HTTP Error 403", "Unsupported URL"}

\* The status dictionaries the library passes to the progress hook.  has_bytes
\* stands for the keys downloaded_bytes and total_bytes being present.
ProgressEvents ==
  { [status |-> "downloading", filename |-> <<"descargas", "a.mp4">>,
     has_bytes |-> TRUE, downloaded_bytes |-> 1, total_bytes |-> 4],
    [status |-> "downloading", filename |-> <<"descargas", "a.mp4">>,
     has_bytes |-> FALSE, downloaded_bytes |-> 0, total_bytes |-> 0],
    [status |-> "finished", filename |-> <<"descargas", "a.mp4">>,
     has_bytes |-> FALSE, downloaded_bytes |-> 0, total_bytes |-> 0] }

(***************************************************************************)
(* VideoDownloaderView                                                     *)
(***************************************************************************)
NoDialog == [kind |-> None, title |-> "", message |-> ""]

\* add_log_message, applied to the log's lines.
add_log_message(log, message) == log (+) SetToBag({message})

\* The view's widgets as one value, for the methods that change several.
View == [buttons |-> buttons, progress_bar |-> progress_bar,
         log_text |-> log_text, dialog |-> dialog]

SetView(v) ==
  /\ buttons' = v.buttons
  /\ progress_bar' = v.progress_bar
  /\ log_text' = v.log_text
  /\ dialog' = v.dialog

\* set_download_state: the three buttons and the progress bar.
set_download_state(v, flag) ==
  IF flag
    THEN [v EXCEPT
            !.buttons = [download_btn |-> "disabled", info_btn |-> "disabled",
                         cancel_btn |-> "normal"],
            !.progress_bar = [mode |-> "indeterminate", running |-> TRUE,
                              value |-> v.progress_bar.value]]
    ELSE [v EXCEPT
            !.buttons = [download_btn |-> "normal", info_btn |-> "normal",
                         cancel_btn |-> "disabled"],
            !.progress_bar = [mode |-> "determinate", running |-> FALSE, value |-> 0]]

\* update_progress: percentage is an integer, or NoPercentage for None.
update_progress(bar, percentage) ==
  IF percentage # NoPercentage
    THEN [bar EXCEPT !.mode = "determinate", !.value = percentage]
    ELSE [bar EXCEPT !.mode = "indeterminate"]

show_error_dialog(title, message) == [kind |-> "error", title |-> title, message |-> message]
show_success_dialog(title, message) == [kind |-> "info", title |-> title, message |-> message]

(***************************************************************************)
(* VideoDownloaderModel: logging and callbacks                             *)
(***************************************************************************)
\* _log for several messages in a row: through log_callback (the controller's
\* _on_model_log, which calls add_log_message) when one is registered.
RECURSIVE AddLines(_, _)
AddLines(log, lines) ==
  IF lines = <<>> THEN log ELSE AddLines(add_log_message(log, Head(lines)), Tail(lines))

Logged(log, lines) == IF log_callback THEN AddLines(log, lines) ELSE log

\* The kinds of thread that have run a view method, once `who` has when `touched`.
Callers(who, touched) == IF touched THEN view_callers \cup {who} ELSE view_callers

set_callbacks(p, l, c, e) ==
  /\ progress_callback' = p
  /\ log_callback' = l
  /\ completion_callback' = c
  /\ error_callback' = e
  /\ UNCHANGED <<is_downloading, current_download_thread, threads, call,
                 cancelled_in_flight>>
  /\ UNCHANGED <<relayVars, viewVars, restVars>>


(***************************************************************************)
(* VideoDownloaderController: the callbacks it registers with the model    *)
(***************************************************************************)
\* Path(filename).name: the last component of a path.
PathName(filename) == filename[Len(filename)]

\* _on_download_progress.  The percentage is kept as an integer, and the log
\* line as the file name with the percentage.
_on_download_progress(v, progress_data) ==
  IF progress_data.status = "downloading"
    THEN LET filename == PathName(progress_data.filename)
         IN  IF progress_data.has_bytes
               THEN LET percentage == (progress_data.downloaded_bytes * 100)
                                        \div progress_data.total_bytes
                    IN  [v EXCEPT
                           !.progress_bar = update_progress(@, percentage),
                           !.log_text = add_log_message(@,
                              "Descargando: " \o filename \o " (" \o ToString(percentage) \o "%)")]
               ELSE [v EXCEPT
                       !.progress_bar = update_progress(@, NoPercentage),
                       !.log_text = add_log_message(@, "Descargando: " \o filename)]
    ELSE IF progress_data.status = "finished"
      THEN [v EXCEPT !.log_text =
              add_log_message(@, "Completado: " \o PathName(progress_data.filename))]
      ELSE v

\* _on_download_completion
_on_download_completion(v, success, message) ==
  LET v1 == set_download_state(v, FALSE)
  IN  IF success
        THEN [v1 EXCEPT
                !.log_text = add_log_message(@, "¡Descarga completada exitosamente!"),
                !.dialog = show_success_dialog("Descarga Completada", message)]
        ELSE [v1 EXCEPT
                !.log_text = add_log_message(@, "Descarga fallida: " \o message)]

\* A plausible slip: the error is logged but the view stays in the downloading
\* state and no dialog is shown.
_on_download_error_log_only(v, error_message) ==
  [v EXCEPT !.log_text = add_log_message(@, "Error: " \o error_message)]

\* _on_download_error
_on_download_error(v, error_message) ==
  LET v1 == set_download_state(v, FALSE)
  IN  [v1 EXCEPT
         !.log_text = add_log_message(@, "Error: " \o error_message),
         !.dialog = show_error_dialog("Error de Descarga", error_message)]

(***************************************************************************)
(* VideoDownloaderModel: downloads                                         *)
(***************************************************************************)
ThreadIds == 1..Len(threads)

NewThread(url, download_path, quality, download_type) ==
  [pc |-> "start", url |-> url, download_path |-> download_path,
   quality |-> quality, download_type |-> download_type,
   result |-> None,      \* how the library call ended: "ok", or the exception's text
   pending |-> None,     \* the exception that is propagating, if any
   notified |-> None]    \* the callback the worker has invoked

\* A plausible slip: the flag is not set when the thread is launched.
start_download_flag_not_set(url, download_path, quality, download_type) ==
  LET args == [url |-> url, download_path |-> download_path,
               quality |-> quality, download_type |-> download_type]
  IN
  IF is_downloading
    THEN /\ call' = [op |-> "start_download", args |-> args, ret |-> "False"]
         /\ UNCHANGED <<is_downloading, current_download_thread, threads>>
    ELSE IF ~Creatable(download_path)
      THEN /\ call' = [op |-> "start_download", args |-> args, ret |-> "raised"]
           /\ UNCHANGED <<is_downloading, current_download_thread, threads>>
      ELSE /\ UNCHANGED is_downloading
           /\ threads' = Append(threads, NewThread(url, download_path, quality, download_type))
           /\ current_download_thread' = Len(threads) + 1
           /\ call' = [op |-> "start_download", args |-> args, ret |-> "True"]

\* A plausible slip: the new download replaces the one in progress instead of
\* being refused.
start_download_replaces(url, download_path, quality, download_type) ==
  LET args == [url |-> url, download_path |-> download_path,
               quality |-> quality, download_type |-> download_type]
  IN
  IF ~Creatable(download_path)
    THEN /\ call' = [op |-> "start_download", args |-> args, ret |-> "raised"]
         /\ UNCHANGED <<is_downloading, current_download_thread, threads>>
    ELSE /\ is_downloading' = TRUE
         /\ threads' = Append(threads, NewThread(url, download_path, quality, download_type))
         /\ current_download_thread' = Len(threads) + 1
         /\ call' = [op |-> "start_download", args |-> args,
                     ret |-> IF is_downloading THEN "False" ELSE "True"]

\* start_download.  call.ret is "True" or "False" as returned, or "raised" when
\* Path(download_path).mkdir raises and the exception leaves start_download.
start_download(url, download_path, quality, download_type) ==
  LET args == [url |-> url, download_path |-> download_path,
               quality |-> quality, download_type |-> download_type]
  IN
  IF is_downloading
    THEN /\ call' = [op |-> "start_download", args |-> args, ret |-> "False"]
         /\ UNCHANGED <<is_downloading, current_download_thread, threads>>
    ELSE IF ~Creatable(download_path)
      THEN /\ call' = [op |-> "start_download", args |-> args, ret |-> "raised"]
           /\ UNCHANGED <<is_downloading, current_download_thread, threads>>
      ELSE /\ is_downloading' = TRUE
           /\ threads' = Append(threads, NewThread(url, download_path, quality, download_type))
           /\ current_download_thread' = Len(threads) + 1
           /\ call' = [op |-> "start_download", args |-> args, ret |-> "True"]

\* The two lines cancel_download logs.
cancel_download_lines ==
  << "Cancelando descarga...",
     "La descarga actual se completará, pero no se iniciarán nuevas descargas" >>

\* A plausible slip: cancelling also forgets the running thread.
cancel_download_drops_thread(who) ==
  /\ IF is_downloading
       THEN /\ log_text' = Logged(log_text, cancel_download_lines)
            /\ view_callers' = Callers(who, log_callback)
            /\ is_downloading' = FALSE
            /\ current_download_thread' = NoThread
       ELSE UNCHANGED <<log_text, view_callers, is_downloading, current_download_thread>>
  /\ UNCHANGED <<threads, call>>

\* cancel_download, called on the thread `who`.
cancel_download(who) ==
  /\ IF is_downloading
       THEN /\ log_text' = Logged(log_text, cancel_download_lines)
            /\ view_callers' = Callers(who, log_callback)
            /\ is_downloading' = FALSE
       ELSE UNCHANGED <<log_text, view_callers, is_downloading>>
  /\ UNCHANGED <<current_download_thread, threads, call>>

\* _download_worker up to the library call (lines 315-326): the header lines
\* are logged and the options are built.
_download_worker_begin(w) ==
  LET t == threads[w]
  IN  /\ t.pc = "start"
      /\ log_text' = Logged(log_text,
            << "Iniciando descarga...",
               "URL: " \o Join(t.url),
               "Tipo: " \o (IF t.download_type = "playlist"
                              THEN "Playlist completa" ELSE "Video individual"),
               "Calidad: " \o t.quality,
               "Guardando en: " \o t.download_path,
               "--------------------------------------------------" >>)
      /\ view_callers' = Callers("worker", log_callback)
      /\ threads' = [threads EXCEPT ![w].pc = "download"]

\* A plausible slip (the minimal version's hook does this): only the events
\* of a download in progress are passed on.
_progress_hook_downloading_only(w, d) ==
  IF progress_callback /\ d.status = "downloading"
    THEN /\ progress_out' = Append(progress_out, d)
         /\ SetView(_on_download_progress(View, d))
         /\ view_callers' = Callers("worker", TRUE)
         /\ UNCHANGED threads
    ELSE UNCHANGED <<progress_out, viewVars, threads>>

\* _progress_hook: the library, running ydl.download on thread w, calls it
\* with d.
_progress_hook(w, d) ==
  IF progress_callback
    THEN /\ progress_out' = Append(progress_out, d)
         /\ SetView(_on_download_progress(View, d))
         /\ view_callers' = Callers("worker", TRUE)
         /\ UNCHANGED threads
    ELSE UNCHANGED <<progress_out, viewVars, threads>>

\* A plausible slip: the completion is logged but the callback is not invoked.
_download_worker_returned_no_callback(w) ==
  LET t == threads[w]
  IN  /\ t.pc = "download"
      /\ SetView([View EXCEPT !.log_text = Logged(@,
            << "¡Descarga completada exitosamente!",
               "Archivos guardados en: " \o t.download_path >>)])
      /\ view_callers' = Callers("worker", log_callback)
      /\ threads' = [threads EXCEPT ![w].pc = "finally", ![w].result = "ok"]

\* _download_worker when ydl.download returns (lines 327-334).
_download_worker_returned(w) ==
  LET t == threads[w]
      v0 == [View EXCEPT !.log_text = Logged(@,
                << "¡Descarga completada exitosamente!",
                   "Archivos guardados en: " \o t.download_path >>)]
  IN  /\ t.pc = "download"
      /\ IF completion_callback
           THEN SetView(_on_download_completion(v0, TRUE, "Descarga completada exitosamente"))
           ELSE SetView(v0)
      /\ view_callers' = Callers("worker", log_callback \/ completion_callback)
      /\ threads' = [threads EXCEPT
                       ![w].pc = "finally",
                       ![w].result = "ok",
                       ![w].notified = IF completion_callback THEN "completion" ELSE None]

\* _download_worker when ydl.download raises an exception whose text is e
\* (lines 336-341).
_download_worker_raised(w, e) ==
  LET t == threads[w]
      error_msg == "Error durante la descarga: " \o e
      v0 == [View EXCEPT !.log_text = Logged(@, << error_msg >>)]
  IN  /\ t.pc = "download"
      /\ IF error_callback
           THEN SetView(_on_download_error(v0, error_msg))
           ELSE SetView(v0)
      /\ view_callers' = Callers("worker", log_callback \/ error_callback)
      /\ threads' = [threads EXCEPT
                       ![w].pc = "finally",
                       ![w].result = e,
                       ![w].pending = None,
                       ![w].notified = IF error_callback THEN "error" ELSE None]

\* A plausible slip: the clean-up is at the end of the try block instead of in
\* a finally clause, so it is skipped when the library call raised.
_download_worker_cleanup_on_success(w) ==
  /\ threads[w].pc = "finally"
  /\ IF threads[w].result = "ok"
       THEN /\ is_downloading' = FALSE
            /\ current_download_thread' = NoThread
       ELSE UNCHANGED <<is_downloading, current_download_thread>>
  /\ threads' = [threads EXCEPT ![w].pc = "done"]

\* _download_worker's finally clause (lines 343-346); then the thread ends,
\* by returning or with the exception that is still propagating.
_download_worker_finally(w) ==
  /\ threads[w].pc = "finally"
  /\ is_downloading' = FALSE
  /\ current_download_thread' = NoThread
  /\ threads' = [threads EXCEPT
                   ![w].pc = IF threads[w].pending = None THEN "done" ELSE "crashed"]


(***************************************************************************)
(* The model class driven through its interface by any client: Spec.       *)
(***************************************************************************)
\* VideoDownloaderModel.__init__, without the callbacks; no thread has been
\* launched and the library has not been called.
InitModel ==
  /\ is_downloading = FALSE
  /\ current_download_thread = NoThread
  /\ threads = <<>>
  /\ call = [op |-> None, ret |-> None]
  /\ cancelled_in_flight = {}
  /\ hook_in = <<>>
  /\ progress_out = <<>>
  /\ lib_calls = {}

\* The lines _show_welcome_message writes when the view is built.
WelcomeLines ==
  << "Bienvenido al Descargador de Videos y Playlists",
     "Pega una URL de YouTube y selecciona el tipo de descarga",
     "Los videos se guardarán en: " \o DefaultPath >>

\* VideoDownloaderView.__init__, without the log.
InitView ==
  /\ buttons = [download_btn |-> "normal", info_btn |-> "normal", cancel_btn |-> "disabled"]
  /\ progress_bar = [mode |-> "indeterminate", running |-> FALSE, value |-> 0]
  /\ dialog = NoDialog
  /\ view_callers = {"ui"}
  /\ url_entry = <<>>

NoVideoInfo == [for_url |-> <<>>, title |-> None, has_entries |-> FALSE, n_entries |-> 0]

\* The UI thread between two events; otherwise pc names the call it is waiting
\* in and the other fields hold the handler's local variables.
UiIdle == [pc |-> "idle", url |-> <<>>, download_path |-> "", download_type |-> ""]

\* The controller's own fields as VideoDownloaderController.__init__ sets them.
InitController ==
  /\ current_video_info = NoVideoInfo
  /\ is_playlist = FALSE
  /\ ui_thread = UiIdle
  /\ info_requests = 0

\* The state after VideoDownloaderModel.__init__ and VideoDownloaderView.__init__:
\* no callback is registered with the model.
InitExpanded ==
  /\ InitModel
  /\ progress_callback = FALSE
  /\ log_callback = FALSE
  /\ completion_callback = FALSE
  /\ error_callback = FALSE
  /\ InitView
  /\ log_text = AddLines(EmptyBag, WelcomeLines)
  /\ InitController

\* validate_url has not been called.
InitUrlIdle ==
  /\ vu_url = <<>>
  /\ vu_ret = None

\* What get_ydl_options returned, before it has been called.
NoOptions ==
  [returned |-> FALSE,
   ydl_opts |-> [writeinfojson |-> FALSE, writeautomaticsub |-> FALSE,
                 ignoreerrors |-> FALSE, progress_hooks |-> <<>>, format |-> "",
                 noplaylist |-> FALSE, outtmpl |-> <<>>]]

\* _format_duration and get_ydl_options have not been called.
InitPureIdle ==
  /\ fd_duration = 0
  /\ fd_ret = None
  /\ opt_args = [download_path |-> <<>>, quality |-> "", download_type |-> ""]
  /\ opt_ret = NoOptions

NoMessagebox == [kind |-> None, title |-> "", message |-> ""]

\* The minimal version after DescargadorModelo.__init__, DescargadorVista.__init__
\* and DescargadorControlador.__init__, which registers its three callbacks.
InitMin ==
  /\ modelo = [callback_progreso |-> TRUE, callback_completado |-> TRUE,
               callback_error |-> TRUE]
  /\ vista = [var_url |-> <<>>,
              var_progreso |-> "Listo para descargar",
              progress_bar |-> "stopped",
              btn_video |-> "normal",
              btn_audio |-> "normal",
              text_info |-> [texto |-> "", formatos |-> {}],
              messagebox |-> NoMessagebox]
  /\ hilos = <<>>
  /\ ui = [pc |-> "idle", op |-> None, url |-> <<>>]
  /\ retorno = [validar_url |-> [lib |-> None, value |-> None],
                obtener_informacion_video |-> [lib |-> None, value |-> None]]
  /\ eventos = 0

Init ==
  /\ InitExpanded
  /\ InitUrlIdle
  /\ InitPureIdle
  /\ InitMin

\* The client registers its callbacks before it starts downloads, as
\* VideoDownloaderController.__init__ does; P holds the choices for the progress
\* callback.
SetCallbacksAmong(P) ==
  /\ threads = <<>>
  /\ \E p \in P, l, c, e \in BOOLEAN : set_callbacks(p, l, c, e)

\* Without progress events the progress callback is never consulted: it is
\* left None.
SetCallbacks == SetCallbacksAmong({FALSE})

StartDownloadUpTo(n) ==
  /\ Len(threads) < n
  /\ \E r \in Requests : start_download(r.url, r.download_path, r.quality, r.download_type)
  /\ UNCHANGED <<progress_callback, log_callback, completion_callback, error_callback,
                 cancelled_in_flight>>
  /\ UNCHANGED <<relayVars, viewVars, restVars>>

StartDownload == StartDownloadUpTo(MaxThreads)

CancelDownload ==
  /\ cancel_download("ui")
  /\ cancelled_in_flight' =
       IF is_downloading
         THEN cancelled_in_flight \cup {w \in ThreadIds : threads[w].pc = "download"}
         ELSE cancelled_in_flight
  /\ UNCHANGED <<progress_callback, log_callback, completion_callback, error_callback>>
  /\ UNCHANGED <<relayVars, buttons, progress_bar, dialog, restVars>>

WorkerBegin ==
  \E w \in ThreadIds :
    /\ _download_worker_begin(w)
    /\ lib_calls' = lib_calls \cup {[thread |-> "worker", call |-> "download"]}
    /\ UNCHANGED <<is_downloading, current_download_thread, progress_callback,
                   log_callback, completion_callback, error_callback, call,
                   cancelled_in_flight>>
    /\ UNCHANGED <<relayVars, buttons, progress_bar, dialog, idleVars>>

LibraryProgress ==
  \E w \in ThreadIds, d \in ProgressEvents :
    /\ threads[w].pc = "download"
    /\ Len(hook_in) < MaxEvents
    /\ hook_in' = Append(hook_in, [d |-> d, registered |-> progress_callback])
    /\ _progress_hook(w, d)
    /\ UNCHANGED <<is_downloading, current_download_thread, progress_callback,
                   log_callback, completion_callback, error_callback, call,
                   cancelled_in_flight>>
    /\ UNCHANGED restVars

LibraryReturns ==
  \E w \in ThreadIds :
    /\ _download_worker_returned(w)
    /\ UNCHANGED <<is_downloading, current_download_thread, progress_callback,
                   log_callback, completion_callback, error_callback, call,
                   cancelled_in_flight>>
    /\ UNCHANGED <<relayVars, restVars>>

LibraryRaises ==
  \E w \in ThreadIds, e \in ErrTexts :
    /\ _download_worker_raised(w, e)
    /\ UNCHANGED <<is_downloading, current_download_thread, progress_callback,
                   log_callback, completion_callback, error_callback, call,
                   cancelled_in_flight>>
    /\ UNCHANGED <<relayVars, restVars>>

WorkerFinally ==
  \E w \in ThreadIds :
    /\ _download_worker_finally(w)
    /\ UNCHANGED <<progress_callback, log_callback, completion_callback,
                   error_callback, call, cancelled_in_flight>>
    /\ UNCHANGED <<relayVars, viewVars, restVars>>

\* The life cycle of downloads.  The library's progress events change only
\* the view and the relay's record; they are in SpecRelay.
Next ==
  \/ SetCallbacks
  \/ StartDownload
  \/ CancelDownload
  \/ WorkerBegin
  \/ LibraryReturns
  \/ LibraryRaises
  \/ WorkerFinally

Spec == Init /\ [][Next]_vars

\* The same with fairness: a thread that can run does run, and the library
\* call ends.
StartDownloadLive == StartDownloadUpTo(MaxLiveThreads)

NextLive ==
  \/ SetCallbacks
  \/ StartDownloadLive
  \/ CancelDownload
  \/ WorkerBegin
  \/ LibraryReturns
  \/ LibraryRaises
  \/ WorkerFinally

FairSpec ==
  /\ Init
  /\ [][NextLive]_vars
  /\ WF_vars(WorkerBegin)
  /\ WF_vars(LibraryReturns \/ LibraryRaises)
  /\ WF_vars(WorkerFinally)

\* The progress relay: downloads with the library's progress events.
SetCallbacksRelay == SetCallbacksAmong(BOOLEAN)

StartDownloadRelay == StartDownloadUpTo(MaxRelayThreads)

NextRelay ==
  \/ SetCallbacksRelay
  \/ StartDownloadRelay
  \/ WorkerBegin
  \/ LibraryProgress
  \/ LibraryReturns
  \/ LibraryRaises
  \/ WorkerFinally

SpecRelay == Init /\ [][NextRelay]_vars

\* VideoDownloaderModel.validate_url as a function of its argument.
UrlPieces ==
  { <<" ">>, <<"\t">>,
    <<"h","t","t","p","s",":","/","/">>,
    <<"y","o","u","t","u","b","e",".","c","o","m">>,
    <<"Y","o","u","T","u","b","e",".","C","O","M">>,
    <<"y","o","u","t","u">>,
    <<".","b","e">>,
    <<"T","W","I","T","C","H",".","t","v">>,
    <<"t","i","k","t","o","k",".","c","o">>,
    <<"m","/","x">>,
    <<"e","x","a","m","p","l","e",".","o","r","g">> }

\* The URLs made of at most n pieces.
RECURSIVE UrlInputs(_)
UrlInputs(n) ==
  IF n = 0
    THEN {<<>>}
    ELSE LET shorter == UrlInputs(n - 1)
         IN  shorter \cup {u \o piece : u \in shorter, piece \in UrlPieces}

InitUrl ==
  /\ InitExpanded
  /\ InitMin
  /\ InitPureIdle
  /\ vu_url \in UrlInputs(MaxParts)
  /\ vu_ret = None

ValidateUrl ==
  /\ vu_ret = None
  /\ vu_ret' = IF validate_url(vu_url) THEN "True" ELSE "False"
  /\ UNCHANGED <<vu_url, modelVars, relayVars, viewVars, lib_calls, pureVars, appVars,
                 minVars>>

SpecUrl == InitUrl /\ [][ValidateUrl]_vars

\* VideoDownloaderModel._format_duration as a function of its argument.
Durations == (0..MaxDuration) \cup {NoDuration}

InitDuration ==
  /\ InitExpanded
  /\ InitMin
  /\ InitUrlIdle
  /\ fd_duration \in Durations
  /\ fd_ret = None
  /\ opt_args = [download_path |-> <<>>, quality |-> "", download_type |-> ""]
  /\ opt_ret = NoOptions

FormatDuration ==
  /\ fd_ret = None
  /\ fd_ret' = _format_duration(fd_duration)
  /\ UNCHANGED <<fd_duration, opt_args, opt_ret>>
  /\ UNCHANGED <<modelVars, relayVars, viewVars, lib_calls, urlVars, appVars, minVars>>

SpecDuration == InitDuration /\ [][FormatDuration]_vars

\* VideoDownloaderModel.get_ydl_options as a function of its arguments.
PathComponents == {"home", "descargas"}

\* The paths of at most n components.
RECURSIVE OptPaths(_)
OptPaths(n) ==
  IF n = 0
    THEN {<<>>}
    ELSE LET shorter == OptPaths(n - 1)
         IN  shorter \cup {Append(p, c) : p \in shorter, c \in PathComponents}

\* The values of the quality combo box, and others.
OptQualities ==
  {"480p", "720p", "1080p", "Mejor disponible", "Audio únicamente",
   "360p", "720P", ""}

\* The values of the download type, and another.
OptTypes == {"single", "playlist", "Playlist"}

InitOptions ==
  /\ InitExpanded
  /\ InitMin
  /\ InitUrlIdle
  /\ fd_duration = 0
  /\ fd_ret = None
  /\ opt_args \in [download_path : OptPaths(MaxPathDepth) \ {<<>>},
                   quality : OptQualities,
                   download_type : OptTypes]
  /\ opt_ret = NoOptions

GetYdlOptions ==
  /\ ~opt_ret.returned
  /\ opt_ret' = [returned |-> TRUE,
                 ydl_opts |-> get_ydl_options(opt_args.download_path, opt_args.quality,
                                              opt_args.download_type)]
  /\ UNCHANGED <<fd_duration, fd_ret, opt_args>>
  /\ UNCHANGED <<modelVars, relayVars, viewVars, lib_calls, urlVars, appVars, minVars>>

SpecOptions == InitOptions /\ [][GetYdlOptions]_vars

(***************************************************************************)
(* Claims on the life cycle of downloads.                                  *)
(***************************************************************************)
Downloading == {w \in ThreadIds : threads[w].pc = "download"}

\* C1: in every reachable state at most one _download_worker thread is
\* executing the library's download call.
C1_AtMostOneDownload == Cardinality(Downloading) <= 1

\* What a start_download step that returned True has done: the flag is set and
\* exactly one thread was launched, for the arguments of the call.
LaunchedOne ==
  /\ is_downloading'
  /\ Len(threads') = Len(threads) + 1
  /\ SubSeq(threads', 1, Len(threads)) = threads
  /\ LET t == threads'[Len(threads')]
     IN  /\ t.pc = "start"
         /\ t.url = call'.args.url
         /\ t.download_path = call'.args.download_path
         /\ t.quality = call'.args.quality
         /\ t.download_type = call'.args.download_type
  /\ current_download_thread' = Len(threads')

\* C3 as stated: start_download returns False exactly when is_downloading is
\* True at the call and returns True otherwise; when it returns True it has set
\* is_downloading and launched exactly one worker thread for its arguments.
C3_ReturnsFalseIffDownloading ==
  [][StartDownload =>
       /\ (call'.ret = "False") <=> is_downloading
       /\ (call'.ret = "True") <=> ~is_downloading
       /\ (call'.ret = "True") => LaunchedOne]_vars

\* C3 as amended: start_download returns False exactly when is_downloading is
\* True at the call; otherwise it returns True, having set is_downloading and
\* launched exactly one worker thread for its arguments, when download_path can
\* be created, and when it cannot the exception of mkdir leaves start_download
\* with no thread launched and is_downloading still False.
C3_StartDownloadContract ==
  [][StartDownload =>
       /\ (call'.ret = "False") <=> is_downloading
       /\ (call'.ret = "True") <=> (~is_downloading /\ Creatable(call'.args.download_path))
       /\ (call'.ret = "raised") <=> (~is_downloading /\ ~Creatable(call'.args.download_path))
       /\ (call'.ret = "True") => LaunchedOne
       /\ (call'.ret = "raised") =>
             /\ ~is_downloading'
             /\ UNCHANGED <<threads, current_download_thread>>]_vars

C3_Witness ==
  /\ call.op = "start_download"
  /\ call.ret = "True"
  /\ is_downloading
  /\ Len(threads) = 2
  /\ current_download_thread = 2
  /\ threads[2].pc = "start"
  /\ threads[2].url = call.args.url

\* C4: a start_download called while is_downloading is True starts no thread
\* and leaves is_downloading and current_download_thread as they were.
C4_BusyStartChangesNothing ==
  [][(StartDownload /\ is_downloading) =>
       /\ call'.ret = "False"
       /\ UNCHANGED <<threads, is_downloading, current_download_thread>>]_vars

C4_Witness ==
  /\ call.op = "start_download"
  /\ call.ret = "False"
  /\ is_downloading
  /\ Len(threads) = 1
  /\ threads[1].pc = "download"
  /\ current_download_thread = 1

\* The callback a worker that has left the library call has invoked: the one
\* for how the call ended, when one is registered.
Delivered(w) ==
  LET t == threads[w]
  IN  \/ /\ t.result = "ok"
         /\ t.notified = IF completion_callback THEN "completion" ELSE None
      \/ /\ t.result \in ErrTexts
         /\ t.notified = IF error_callback THEN "error" ELSE None

CancelLines ==
  SetToBag({"Cancelando descarga...",
            "La descarga actual se completará, pero no se iniciarán nuevas descargas"})

\* C5: cancel_download is advisory.  With is_downloading True it only clears
\* the flag (and logs its two lines when a log callback is registered); no
\* thread is interrupted, and a thread that was inside the library call goes on
\* to the end of the call and then invokes its completion or error callback.
\* With is_downloading False it changes nothing and logs nothing.
C5_CancelIsAdvisory ==
  /\ [](\A w \in ThreadIds : threads[w].pc \in {"finally", "done"} => Delivered(w))
  /\ [][CancelDownload =>
          /\ UNCHANGED <<threads, current_download_thread, call, progress_callback,
                         log_callback, completion_callback, error_callback,
                         buttons, progress_bar, dialog>>
          /\ is_downloading =>
                /\ ~is_downloading'
                /\ log_text' = IF log_callback THEN log_text (+) CancelLines ELSE log_text
          /\ ~is_downloading => UNCHANGED <<is_downloading, log_text, view_callers>>]_vars
  /\ \A w \in 1..MaxLiveThreads :
        (w \in cancelled_in_flight) ~>
           (w \in ThreadIds /\ threads[w].pc \in {"finally", "done"} /\ Delivered(w))

C5_Witness ==
  \E w \in cancelled_in_flight :
    /\ threads[w].pc = "done"
    /\ threads[w].notified \in {"completion", "error"}
    /\ BagIn("Cancelando descarga...", log_text)

\* The threads that end in a step: they leave the finally clause.
Ending == {w \in ThreadIds : threads[w].pc = "finally" /\ threads'[w].pc \in {"done", "crashed"}}

\* C13: every worker, whether the library call returned or raised, ends by
\* setting is_downloading to False and current_download_thread to None; and,
\* the library call terminating, every worker that was started ends, so every
\* started download is followed by a state with is_downloading False.
C13_WorkerCleansUp ==
  /\ [][\A w \in ThreadIds :
          (threads[w].pc # threads'[w].pc /\ threads'[w].pc \in {"done", "crashed"}) =>
             /\ w \in Ending
             /\ threads[w].result \in {"ok"} \cup ErrTexts
             /\ ~is_downloading'
             /\ current_download_thread' = NoThread]_vars
  /\ \A w \in 1..MaxLiveThreads :
        (w \in ThreadIds) ~> (w \in ThreadIds /\ threads[w].pc = "done")
  /\ \A w \in 1..MaxLiveThreads :
        (w \in ThreadIds) ~> ~is_downloading

\* A download that failed and was not cancelled: its worker has reset the flag.
C13_Witness ==
  /\ Len(threads) = 1
  /\ threads[1].pc = "done"
  /\ threads[1].result \in ErrTexts
  /\ cancelled_in_flight = {}
  /\ ~is_downloading
  /\ current_download_thread = NoThread

\* C15 as stated: a worker's clean-up clears only the state of its own
\* download: when an older worker ends while a newer one, started after a
\* cancel_download, is still running, is_downloading and
\* current_download_thread stay as they are.
C15_CleanupOnlyOwnDownload ==
  [][\A w \in Ending :
        (\E v \in ThreadIds : v > w /\ threads[v].pc \in {"start", "download"}) =>
           UNCHANGED <<is_downloading, current_download_thread>>]_vars


(***************************************************************************)
(* Claims on the progress relay.                                           *)
(***************************************************************************)
\* The events of hook_in that arrived while a progress callback was registered.
RECURSIVE Registered(_)
Registered(events) ==
  IF events = <<>>
    THEN <<>>
    ELSE IF Head(events).registered
      THEN <<Head(events).d>> \o Registered(Tail(events))
      ELSE Registered(Tail(events))

\* C9: each progress event the library passes to _progress_hook reaches the
\* registered progress callback exactly once, unmodified and in the order
\* received; with no progress callback registered the event is dropped and no
\* exception is raised into the library call.
C9_ProgressRelayed ==
  /\ [](progress_out = Registered(hook_in))
  /\ [](\A w \in ThreadIds : threads[w].pending = None /\ threads[w].pc # "crashed")
  /\ [][LibraryProgress =>
          IF progress_callback
            THEN /\ progress_out' = Append(progress_out, hook_in'[Len(hook_in')].d)
                 /\ UNCHANGED threads
            ELSE UNCHANGED <<progress_out, viewVars, threads>>]_vars

C9_Witness ==
  /\ Len(hook_in) = 2
  /\ progress_callback
  /\ progress_out = <<hook_in[1].d, hook_in[2].d>>
  /\ hook_in[1].d.status = "downloading"
  /\ hook_in[2].d.status = "finished"
  /\ BagIn("Completado: a.mp4", log_text)

(***************************************************************************)
(* Claims on validate_url.                                                 *)
(***************************************************************************)
\* url, lower-cased, holds pattern from position i on.
MatchesAt(url, pattern, i) ==
  /\ i + Len(pattern) - 1 <= Len(url)
  /\ \A j \in 1..Len(pattern) : LowerChar(url[i + j - 1]) = pattern[j]

\* C10: validate_url returns False for an empty or whitespace-only URL, and
\* otherwise True exactly when the lower-cased URL contains one of the eight
\* site names.
C10_ValidateUrl ==
  vu_ret # None =>
    IF \A i \in 1..Len(vu_url) : vu_url[i] \in Whitespace
      THEN vu_ret = "False"
      ELSE (vu_ret = "True") <=>
             \E k \in 1..Len(valid_patterns), i \in 1..Len(vu_url) :
               MatchesAt(vu_url, valid_patterns[k], i)

\* A URL accepted only because it is lower-cased first, with white space
\* around it.
C10_Witness ==
  /\ vu_ret = "True"
  /\ \A k \in 1..Len(valid_patterns) : ~Contains(vu_url, valid_patterns[k])
  /\ Head(vu_url) \in Whitespace


(***************************************************************************)
(* The expanded application: VideoDownloaderController between the view's  *)
(* buttons and the model.  SpecApp.                                        *)
(***************************************************************************)
\* What the user types into the URL field.
UrlOther == <<"e","x",".","o","r","g">>
AppUrls == {<<" ">> \o UrlA, UrlOther}

\* The radio button that is selected when Download is pressed.
DownloadTypes == {"single", "playlist"}

\* What the download folder can be when Download is pressed; the handler
\* checks it itself.
AppPaths == {DefaultPath, UncreatablePath}

\* The quality the combo box holds.
AppQuality == "720p"

\* What extract_info returns for a URL: a video, or a playlist with its entries.
AppInfos ==
  { [title |-> "a", has_entries |-> FALSE, n_entries |-> 0],
    [title |-> "lista", has_entries |-> TRUE, n_entries |-> 12] }

\* get_url: the text of the URL field, stripped.
get_url == strip(url_entry)

show_question_dialog(title, message) ==
  [kind |-> "question", title |-> title, message |-> message]

\* show_info_dialog: a modal window with the formatted information.
show_info_dialog(info) ==
  [kind |-> "window", title |-> "Información del Video/Playlist", message |-> info.title]

\* The state after VideoDownloaderController.__init__: the model, the view,
\* the four model callbacks registered, the download folder created and the
\* start-up lines logged.
InitApp ==
  /\ InitModel
  /\ progress_callback = TRUE
  /\ log_callback = TRUE
  /\ completion_callback = TRUE
  /\ error_callback = TRUE
  /\ InitView
  /\ log_text = AddLines(EmptyBag,
        WelcomeLines \o
        << "Carpeta de descarga: " \o DefaultPath,
           "Aplicación iniciada correctamente",
           "Consejo: Puedes usar Ctrl+V para pegar URLs rápidamente" >>)
  /\ InitController
  /\ InitUrlIdle
  /\ InitPureIdle
  /\ InitMin

\* The user edits the URL field: it holds one of the texts of U afterwards.
EditUrlAmong(U) ==
  /\ ui_thread.pc = "idle"
  /\ \E u \in U : url_entry' = u
  /\ UNCHANGED <<modelVars, relayVars, viewVars, lib_calls, urlVars, pureVars,
                 minVars>>
  /\ UNCHANGED <<current_video_info, is_playlist, ui_thread, info_requests>>

\* The bounds leave room for one more download or metadata request.
RoomForRequest == Len(threads) + info_requests < MaxAppRequests

\* _on_get_info up to the library call inside extract_video_info (controller
\* lines 232-254, model lines 108-119): the handler runs on the UI thread, which
\* stays inside extract_info until the library answers.
OnGetInfoBegin ==
  /\ ui_thread.pc = "idle"
  /\ buttons.info_btn = "normal"
  /\ LET url == get_url
     IN  IF url = <<>>
           THEN /\ dialog' = show_error_dialog("URL Requerida", "Por favor, ingresa una URL válida.")
                /\ UNCHANGED <<buttons, log_text, ui_thread, info_requests, lib_calls>>
           ELSE IF ~validate_url(url)
             THEN /\ dialog' = show_error_dialog("URL Inválida", "La URL ingresada no es compatible.")
                  /\ UNCHANGED <<buttons, log_text, ui_thread, info_requests, lib_calls>>
             ELSE /\ info_requests < MaxInfoRequests
                  /\ RoomForRequest
                  /\ info_requests' = info_requests + 1
                  /\ buttons' = [buttons EXCEPT !.info_btn = "disabled"]
                  /\ log_text' = Logged(
                        add_log_message(log_text, "Obteniendo información del video/playlist..."),
                        << "Extrayendo información del video/playlist..." >>)
                  /\ ui_thread' = [UiIdle EXCEPT !.pc = "extract_video_info", !.url = url]
                  /\ lib_calls' = lib_calls \cup {[thread |-> "ui", call |-> "extract_info"]}
                  /\ UNCHANGED dialog
  /\ view_callers' = Callers("ui", TRUE)
  /\ UNCHANGED <<modelVars, relayVars, progress_bar, urlVars, pureVars, minVars>>
  /\ UNCHANGED <<url_entry, current_video_info, is_playlist>>

\* _on_get_info when extract_info returns one of the values of I (model lines
\* 121-122, controller lines 255-270 and 276-278).
OnGetInfoReturnsAmong(I) ==
  /\ ui_thread.pc = "extract_video_info"
  /\ \E raw_info \in I :
       /\ current_video_info' = [for_url |-> ui_thread.url, title |-> raw_info.title,
                                 has_entries |-> raw_info.has_entries,
                                 n_entries |-> raw_info.n_entries]
       /\ is_playlist' = (raw_info.has_entries /\ raw_info.n_entries > 0)
       /\ log_text' = add_log_message(
             Logged(log_text, << "Información extraída exitosamente" >>),
             IF raw_info.has_entries /\ raw_info.n_entries > 0
               THEN "Playlist detectada: " \o ToString(raw_info.n_entries) \o " videos"
               ELSE "Video individual detectado: " \o raw_info.title)
       /\ dialog' = show_info_dialog(raw_info)
  /\ buttons' = [buttons EXCEPT !.info_btn = "normal"]
  /\ ui_thread' = UiIdle
  /\ view_callers' = Callers("ui", TRUE)
  /\ UNCHANGED <<modelVars, relayVars, progress_bar, lib_calls, urlVars, pureVars,
                 minVars>>
  /\ UNCHANGED <<url_entry, info_requests>>

\* _on_get_info when extract_info raises (model lines 124-127, controller
\* lines 272-278).
OnGetInfoRaises ==
  /\ ui_thread.pc = "extract_video_info"
  /\ \E e \in ErrTexts :
       LET error_msg == "Error al extraer información: " \o e
       IN  /\ log_text' = add_log_message(
                 Logged(log_text, << error_msg >>),
                 "Error al obtener información: " \o error_msg)
           /\ dialog' = show_error_dialog("Error",
                 "No se pudo obtener información del video:\n" \o error_msg)
  /\ buttons' = [buttons EXCEPT !.info_btn = "normal"]
  /\ ui_thread' = UiIdle
  /\ view_callers' = Callers("ui", TRUE)
  /\ UNCHANGED <<modelVars, relayVars, progress_bar, lib_calls, urlVars, pureVars,
                 minVars>>
  /\ UNCHANGED <<url_entry, current_video_info, is_playlist, info_requests>>

\* A plausible slip: the handler leaves the check of a download in progress
\* to model.start_download.
_on_start_download_refusal_not_busy(url) ==
  IF url = <<>>
    THEN show_error_dialog("URL Requerida", "Por favor, ingresa una URL válida.")
    ELSE IF ~validate_url(url)
      THEN show_error_dialog("URL Inválida", "La URL ingresada no es compatible.")
      ELSE NoDialog

\* The error dialog of _on_start_download's first three checks (lines 285-298),
\* or NoDialog when the URL and the model pass them.
_on_start_download_refusal(url) ==
  IF url = <<>>
    THEN show_error_dialog("URL Requerida", "Por favor, ingresa una URL válida.")
    ELSE IF ~validate_url(url)
      THEN show_error_dialog("URL Inválida", "La URL ingresada no es compatible.")
      ELSE IF is_downloading
        THEN show_error_dialog("Descarga en Curso",
               "Ya hay una descarga en progreso. Espera a que termine o cancélala.")
        ELSE NoDialog

\* A plausible slip: the confirmation is asked from 10 videos on.
NeedsConfirmationFrom10(t) ==
  /\ t = "playlist"
  /\ current_video_info # NoVideoInfo
  /\ current_video_info.has_entries
  /\ current_video_info.n_entries >= 10

\* Whether _on_start_download asks before a download of type t (lines 314-317).
NeedsConfirmation(t) ==
  /\ t = "playlist"
  /\ current_video_info # NoVideoInfo
  /\ current_video_info.has_entries
  /\ current_video_info.n_entries > 10

\* The question of lines 318-321.
ConfirmPlaylist ==
  show_question_dialog("Confirmar Descarga de Playlist",
     "Estás a punto de descargar " \o ToString(current_video_info.n_entries)
       \o " videos.\n¿Deseas continuar?")

\* _on_start_download returns, or waits, without a download: v is the view as
\* the handler leaves it.
_on_start_download_return(v) ==
  /\ SetView(v)
  /\ UNCHANGED <<is_downloading, current_download_thread, threads, call>>

\* A plausible slip: the view is put in the downloading state before the
\* answer is looked at.
_on_start_download_declined_after_state(v) ==
  _on_start_download_return(set_download_state(v, TRUE))

\* The user answers no to the question (lines 322-323).
_on_start_download_declined(v) == _on_start_download_return(v)

\* The end of _on_start_download (lines 325-333).
_on_start_download_launch(v, url, download_path, quality, t) ==
  LET v1 == set_download_state(v, TRUE)
  IN  /\ start_download(url, download_path, quality, t)
      /\ IF call'.ret = "False"
           THEN SetView([set_download_state(v1, FALSE) EXCEPT
                   !.dialog = show_error_dialog("Error", "No se pudo iniciar la descarga.")])
           ELSE SetView(v1)

\* _on_start_download up to the question dialog, in which the UI thread
\* waits for the answer while the worker threads go on, or to its end when it
\* does not ask.  The folder and the selected type are inputs.
OnStartDownload ==
  /\ ui_thread.pc = "idle"
  /\ buttons.download_btn = "normal"
  /\ \E download_path \in AppPaths, t \in DownloadTypes :
       LET url == get_url
           refusal == _on_start_download_refusal(url)
       IN  IF refusal # NoDialog
             THEN /\ _on_start_download_return([View EXCEPT !.dialog = refusal])
                  /\ UNCHANGED ui_thread
           ELSE IF ~Creatable(download_path)
             THEN /\ _on_start_download_return([View EXCEPT !.dialog =
                        show_error_dialog("Error de Carpeta",
                          "No se pudo crear la carpeta de descarga:\n" \o download_path)])
                  /\ UNCHANGED ui_thread
           ELSE IF NeedsConfirmation(t)
             THEN /\ _on_start_download_return([View EXCEPT !.dialog = ConfirmPlaylist])
                  /\ ui_thread' = [pc |-> "show_question_dialog", url |-> url,
                                   download_path |-> download_path, download_type |-> t]
           ELSE /\ Len(threads) < MaxAppThreads
                /\ RoomForRequest
                /\ _on_start_download_launch(View, url, download_path, AppQuality, t)
                /\ UNCHANGED ui_thread
  /\ view_callers' = Callers("ui", TRUE)
  /\ UNCHANGED <<progress_callback, log_callback, completion_callback, error_callback,
                 cancelled_in_flight>>
  /\ UNCHANGED <<relayVars, lib_calls, urlVars, pureVars, minVars>>
  /\ UNCHANGED <<url_entry, current_video_info, is_playlist, info_requests>>

\* _on_start_download from the user's answer to the question on (lines
\* 322-333).
OnConfirmAnswer ==
  /\ ui_thread.pc = "show_question_dialog"
  /\ \E confirm \in BOOLEAN :
       IF ~confirm
         THEN _on_start_download_declined(View)
         ELSE /\ Len(threads) < MaxAppThreads
              /\ RoomForRequest
              /\ _on_start_download_launch(View, ui_thread.url, ui_thread.download_path,
                                           AppQuality, ui_thread.download_type)
  /\ ui_thread' = UiIdle
  /\ view_callers' = Callers("ui", TRUE)
  /\ UNCHANGED <<progress_callback, log_callback, completion_callback, error_callback,
                 cancelled_in_flight>>
  /\ UNCHANGED <<relayVars, lib_calls, urlVars, pureVars, minVars>>
  /\ UNCHANGED <<url_entry, current_video_info, is_playlist, info_requests>>

\* _on_cancel_download.  The user's answer to the question dialog is an input.
\* model.cancel_download is written out here because the handler goes on to
\* write to the log after it.
OnCancelDownload ==
  /\ ui_thread.pc = "idle"
  /\ buttons.cancel_btn = "normal"
  /\ IF is_downloading
       THEN \E confirm \in BOOLEAN :
              LET question == show_question_dialog("Cancelar Descarga",
                     "¿Estás seguro de que deseas cancelar la descarga actual?")
                  v0 == [View EXCEPT !.dialog = question]
              IN  IF confirm
                    THEN /\ is_downloading' = FALSE
                         /\ cancelled_in_flight' =
                              cancelled_in_flight \cup {w \in ThreadIds : threads[w].pc = "download"}
                         /\ SetView(set_download_state(
                               [v0 EXCEPT !.log_text =
                                  add_log_message(Logged(@, cancel_download_lines),
                                                  "Descarga cancelada por el usuario")],
                               FALSE))
                    ELSE /\ SetView(v0)
                         /\ UNCHANGED <<is_downloading, cancelled_in_flight>>
       ELSE UNCHANGED <<is_downloading, cancelled_in_flight, viewVars>>
  /\ view_callers' = Callers("ui", is_downloading)
  /\ UNCHANGED <<current_download_thread, threads, call, progress_callback, log_callback,
                 completion_callback, error_callback>>
  /\ UNCHANGED <<relayVars, lib_calls, urlVars, pureVars, appVars, minVars>>

EditUrl == EditUrlAmong(AppUrls)

OnGetInfoReturns == OnGetInfoReturnsAmong(AppInfos)

\* The application: the user at the window, and the worker threads.  The
\* library's progress events are in SpecRelay.
NextApp ==
  \/ EditUrl
  \/ OnGetInfoBegin
  \/ OnGetInfoReturns
  \/ OnGetInfoRaises
  \/ OnStartDownload
  \/ OnConfirmAnswer
  \/ OnCancelDownload
  \/ WorkerBegin
  \/ LibraryReturns
  \/ LibraryRaises
  \/ WorkerFinally

SpecApp == InitApp /\ [][NextApp]_vars

\* The handlers of the UI thread alone, while the worker threads of the
\* downloads they start have not run yet, with more URLs and more kinds of
\* metadata.
StartUrls == {<<" ">> \o UrlA, UrlB}

StartInfos ==
  { [title |-> "a", has_entries |-> FALSE, n_entries |-> 0],
    [title |-> "corta", has_entries |-> TRUE, n_entries |-> 10],
    [title |-> "lista", has_entries |-> TRUE, n_entries |-> 11] }

EditUrlStart == EditUrlAmong(StartUrls)

OnGetInfoReturnsStart == OnGetInfoReturnsAmong(StartInfos)

NextStart ==
  \/ EditUrlStart
  \/ OnGetInfoBegin
  \/ OnGetInfoReturnsStart
  \/ OnGetInfoRaises
  \/ OnStartDownload
  \/ OnConfirmAnswer
  \/ OnCancelDownload

SpecStart == InitApp /\ [][NextStart]_vars

\* The view in the not-downloading state, as set_download_state(False) leaves it.
NotDownloadingView ==
  /\ buttons = [download_btn |-> "normal", info_btn |-> "normal", cancel_btn |-> "disabled"]
  /\ progress_bar = [mode |-> "determinate", running |-> FALSE, value |-> 0]

\* C7: an exception the library raises inside _download_worker is caught
\* there: the worker logs 'Error durante la descarga: <text>' and hands the same
\* message to error_callback; the controller adds the line 'Error: <message>' to
\* the log, shows the error dialog 'Error de Descarga' with the message and puts
\* the view in the not-downloading state; and no thread ends with an exception.
C7_WorkerErrorsSurface ==
  /\ [](\A w \in ThreadIds : threads[w].pending = None /\ threads[w].pc # "crashed")
  /\ [][LibraryRaises =>
          \E w \in ThreadIds, e \in ErrTexts :
            LET error_msg == "Error durante la descarga: " \o e
            IN  /\ threads[w].pc = "download"
                /\ threads'[w].pc = "finally"
                /\ threads'[w].result = e
                /\ threads'[w].notified = "error"
                /\ log_text' = log_text (+) SetToBag({error_msg})
                                        (+) SetToBag({"Error: " \o error_msg})
                /\ dialog' = [kind |-> "error", title |-> "Error de Descarga",
                              message |-> error_msg]
                /\ NotDownloadingView']_vars

C7_Witness ==
  /\ Len(threads) = 1
  /\ threads[1].pc = "done"
  /\ threads[1].result = "HTTP Error 403"
  /\ threads[1].notified = "error"
  /\ dialog = [kind |-> "error", title |-> "Error de Descarga",
               message |-> "Error durante la descarga: HTTP Error 403"]
  /\ BagIn("Error: Error durante la descarga: HTTP Error 403", log_text)
  /\ NotDownloadingView
  /\ ~is_downloading


(***************************************************************************)
(* The minimal version: DescargadorModelo, DescargadorControlador and      *)
(* DescargadorVista.  SpecMin.                                             *)
(***************************************************************************)
\* What the user types into the URL field, which is empty at first.
MinUrls == {<<" ">> \o UrlA}

\* What extract_info returns: the fields obtener_informacion_video reads.
LibInfos ==
  { [title |-> "a", duration |-> 10,
     formats |-> << [vcodec |-> "avc1", ext |-> "mp4", height |-> 720],
                    [vcodec |-> "none", ext |-> "m4a", height |-> 0] >>] }

\* How a call of the library ends: it returns, or it raises an exception.
LibOutcomes ==
  {[status |-> "ok", info |-> i, text |-> ""] : i \in LibInfos}
    \cup {[status |-> "error", info |-> None, text |-> e] : e \in ErrTexts}

\* The status dictionaries the library passes to _hook_progreso.  has_strs
\* stands for the keys _percent_str, _speed_str and _eta_str being present.
MinProgressEvents ==
  { [status |-> "downloading", has_strs |-> TRUE, percent_str |-> "50.0%",
     speed_str |-> "1.00MiB/s", eta_str |-> "00:10", filename |-> <<"Descargas", "a.mp4">>],
    [status |-> "downloading", has_strs |-> FALSE, percent_str |-> "",
     speed_str |-> "", eta_str |-> "", filename |-> <<"Descargas", "a.mp4">>],
    [status |-> "finished", has_strs |-> FALSE, percent_str |-> "",
     speed_str |-> "", eta_str |-> "", filename |-> <<"Descargas", "a.mp4">>],
    [status |-> "error", has_strs |-> FALSE, percent_str |-> "",
     speed_str |-> "", eta_str |-> "", filename |-> <<"Descargas", "a.mp4">>] }

(***************************************************************************)
(* DescargadorVista                                                        *)
(***************************************************************************)
_deshabilitar_botones(v) == [v EXCEPT !.btn_video = "disabled", !.btn_audio = "disabled"]

_habilitar_botones(v) == [v EXCEPT !.btn_video = "normal", !.btn_audio = "normal"]

iniciar_progreso(v) ==
  _deshabilitar_botones([v EXCEPT !.progress_bar = "running",
                                  !.var_progreso = "Descargando..."])

detener_progreso(v) == _habilitar_botones([v EXCEPT !.progress_bar = "stopped"])

actualizar_progreso(v, porcentaje, velocidad, tiempo_restante) ==
  [v EXCEPT !.var_progreso = "Progreso: " \o porcentaje \o " - Velocidad: " \o velocidad
                               \o " - Tiempo restante: " \o tiempo_restante]

\* mostrar_completado; os.path.basename(archivo) is the last component.
mostrar_completado(v, archivo) ==
  [detener_progreso(v) EXCEPT
     !.var_progreso = "Descarga completada",
     !.messagebox = [kind |-> "info", title |-> "Éxito",
                     message |-> "Descarga completada:\n" \o PathName(archivo)]]

mostrar_error(v, mensaje) ==
  [detener_progreso(v) EXCEPT
     !.var_progreso = "Error en la descarga",
     !.messagebox = [kind |-> "error", title |-> "Error", message |-> mensaje]]

\* mostrar_informacion_video: info is what obtener_informacion_video returned.
mostrar_informacion_video(v, info) ==
  [v EXCEPT !.text_info =
     IF info.ret = "dict"
       THEN [texto |-> "Título: " \o info.titulo \o "\nDuración: "
                          \o ToString(info.duracion) \o " segundos",
             formatos |-> info.formatos]
       ELSE [texto |-> "No se pudo obtener información del video", formatos |-> {}]]

\* The warning of the three button handlers for an empty URL field.
AdvertenciaUrl ==
  [kind |-> "warning", title |-> "Advertencia", message |-> "Por favor ingresa una URL válida"]

(***************************************************************************)
(* DescargadorControlador: the callbacks it registers with the model       *)
(***************************************************************************)
_callback_progreso(v, porcentaje, velocidad, tiempo_restante) ==
  actualizar_progreso(v, porcentaje, velocidad, tiempo_restante)

_callback_completado(v, archivo) == mostrar_completado(v, archivo)

_callback_error(v, mensaje_error) == mostrar_error(v, mensaje_error)

(***************************************************************************)
(* DescargadorModelo                                                       *)
(***************************************************************************)
establecer_callbacks(progreso, completado, error) ==
  [callback_progreso |-> progreso, callback_completado |-> completado,
   callback_error |-> error]

\* _hook_progreso: what the call with d does to the view, through the callbacks.
_hook_progreso(v, d) ==
  IF d.status = "downloading"
    THEN LET porcentaje == IF d.has_strs THEN d.percent_str ELSE "N/A"
             velocidad == IF d.has_strs THEN d.speed_str ELSE "N/A"
             tiempo_restante == IF d.has_strs THEN d.eta_str ELSE "N/A"
         IN  IF modelo.callback_progreso
               THEN _callback_progreso(v, porcentaje, velocidad, tiempo_restante)
               ELSE v
    ELSE IF d.status = "finished"
      THEN IF modelo.callback_completado THEN _callback_completado(v, d.filename) ELSE v
      ELSE v

\* The formats of info that hold video, as obtener_informacion_video lists them.
FormatosDisponibles(info) ==
  { info.formats[i].ext \o " - " \o ToString(info.formats[i].height) \o "p" :
      i \in {j \in 1..Len(info.formats) : info.formats[j].vcodec # "none"} }

\* obtener_informacion_video, given how extract_info ended: the dictionary it
\* builds, or None.
obtener_informacion_video(o) ==
  IF o.status = "ok"
    THEN [ret |-> "dict", titulo |-> o.info.title, duracion |-> o.info.duration,
          formatos |-> FormatosDisponibles(o.info)]
    ELSE [ret |-> "None", titulo |-> "", duracion |-> 0, formatos |-> {}]

\* A plausible slip: validar_url without its try, so that the library's
\* exception leaves it.
validar_url_no_try(o) == IF o.status = "ok" THEN "True" ELSE "raised"

\* validar_url, given how extract_info ended.
validar_url(o) == IF o.status = "ok" THEN "True" ELSE "False"

\* descargar_video and descargar_audio: a daemon thread is started on
\* _descargar or _descargar_audio, whose first statement of substance is the
\* library's download call.
NewHilo(tipo, url) ==
  [pc |-> "download", tipo |-> tipo, url |-> url,
   result |-> None,       \* how the library call ended: "ok", or the exception's text
   reported |-> FALSE]    \* whether callback_error was called

descargar_video(url, formato, calidad) == hilos' = Append(hilos, NewHilo("video", url))

descargar_audio(url, formato_audio) == hilos' = Append(hilos, NewHilo("audio", url))

\* The message _descargar and _descargar_audio hand to callback_error.
MensajeError(tipo, e) ==
  (IF tipo = "video" THEN "Error al descargar video: " ELSE "Error al descargar audio: ") \o e

\* _descargar and _descargar_audio when ydl.download raises an exception whose
\* text is e.
_descargar_raised(w, e) ==
  /\ hilos[w].pc = "download"
  /\ vista' = IF modelo.callback_error
                THEN _callback_error(vista, MensajeError(hilos[w].tipo, e))
                ELSE vista
  /\ hilos' = [hilos EXCEPT ![w].pc = "done", ![w].result = e,
                            ![w].reported = modelo.callback_error]

\* _descargar and _descargar_audio when ydl.download returns.
_descargar_returned(w) ==
  /\ hilos[w].pc = "download"
  /\ hilos' = [hilos EXCEPT ![w].pc = "done", ![w].result = "ok"]

(***************************************************************************)
(* The minimal application.                                                *)
(***************************************************************************)
expandedVars == <<modelVars, relayVars, viewVars, urlVars, pureVars, appVars>>

HilosIds == 1..Len(hilos)

\* A client of the model registers callbacks, as DescargadorControlador.__init__
\* does, before any download.
EstablecerCallbacks ==
  /\ hilos = <<>>
  /\ ui.pc = "idle"
  /\ \E progreso, completado, error \in BOOLEAN :
       modelo' = establecer_callbacks(progreso, completado, error)
  /\ UNCHANGED <<vista, hilos, ui, retorno, eventos, lib_calls, expandedVars>>

\* The user edits the URL field.
EscribirUrl ==
  /\ ui.pc = "idle"
  /\ \E u \in MinUrls : vista' = [vista EXCEPT !.var_url = u]
  /\ UNCHANGED <<modelo, hilos, ui, retorno, eventos, lib_calls, expandedVars>>

\* A button handler of the view up to the library call of validar_url: the
\* controller method for op is entered, and with it validar_url and
\* extract_info, all on the UI thread.
Pulsar(op) ==
  /\ ui.pc = "idle"
  /\ LET url == strip(vista.var_url)
     IN  IF url # <<>>
           THEN /\ ui' = [pc |-> "validar_url", op |-> op, url |-> url]
                /\ lib_calls' = lib_calls \cup {[thread |-> "ui", call |-> "extract_info"]}
                /\ UNCHANGED vista
           ELSE /\ vista' = [vista EXCEPT !.messagebox = AdvertenciaUrl]
                /\ UNCHANGED <<ui, lib_calls>>
  /\ UNCHANGED <<modelo, hilos, retorno, eventos, expandedVars>>

\* _on_obtener_info: the button Obtener Info, which is never disabled.
_on_obtener_info == Pulsar("info")

\* _on_descargar_video: the button Descargar Video, when it is enabled.
_on_descargar_video ==
  /\ vista.btn_video = "normal"
  /\ Len(hilos) < MaxMinThreads
  /\ Pulsar("video")

\* _on_descargar_audio: the button Descargar Solo Audio, when it is enabled.
_on_descargar_audio ==
  /\ vista.btn_audio = "normal"
  /\ Len(hilos) < MaxMinThreads
  /\ Pulsar("audio")

\* validar_url ends, and the controller method that called it goes on
\* (controlador.py lines 31-36, 55-63 and 70-78).  An exception that left
\* validar_url would leave the controller and the handler too.
ValidarUrlEnds ==
  /\ ui.pc = "validar_url"
  /\ \E o \in LibOutcomes :
       LET r == validar_url(o)
       IN  /\ retorno' = [retorno EXCEPT !.validar_url = [lib |-> o.status, value |-> r]]
           /\ IF r = "raised"
                THEN /\ ui' = [pc |-> "idle", op |-> None, url |-> <<>>]
                     /\ UNCHANGED <<vista, hilos, lib_calls>>
              ELSE IF r = "False"
                THEN /\ vista' = mostrar_error(vista, "La URL no es válida o no es compatible")
                     /\ ui' = [pc |-> "idle", op |-> None, url |-> <<>>]
                     /\ UNCHANGED <<hilos, lib_calls>>
              ELSE IF ui.op = "info"
                THEN /\ ui' = [ui EXCEPT !.pc = "obtener_informacion_video"]
                     /\ lib_calls' = lib_calls \cup {[thread |-> "ui", call |-> "extract_info"]}
                     /\ UNCHANGED <<vista, hilos>>
              ELSE /\ vista' = iniciar_progreso(vista)
                   /\ IF ui.op = "video"
                        THEN descargar_video(ui.url, "mp4", "best")
                        ELSE descargar_audio(ui.url, "mp3")
                   /\ lib_calls' = lib_calls \cup {[thread |-> "worker", call |-> "download"]}
                   /\ ui' = [pc |-> "idle", op |-> None, url |-> <<>>]
  /\ UNCHANGED <<modelo, eventos, expandedVars>>

\* obtener_informacion_video ends, and the controller shows what it returned
\* (controlador.py lines 36-42).
InfoEnds ==
  /\ ui.pc = "obtener_informacion_video"
  /\ \E o \in LibOutcomes :
       LET info == obtener_informacion_video(o)
           v1 == mostrar_informacion_video(vista, info)
       IN  /\ retorno' = [retorno EXCEPT
                            !.obtener_informacion_video = [lib |-> o.status, value |-> info.ret]]
           /\ vista' = IF info.ret = "dict"
                         THEN v1
                         ELSE mostrar_error(v1, "No se pudo obtener información del video")
  /\ ui' = [pc |-> "idle", op |-> None, url |-> <<>>]
  /\ UNCHANGED <<modelo, hilos, eventos, lib_calls, expandedVars>>

\* The library, running ydl.download on thread w, calls the progress hook.
LibraryHook ==
  \E w \in HilosIds, d \in MinProgressEvents :
    /\ hilos[w].pc = "download"
    /\ eventos < MaxMinEvents
    /\ eventos' = eventos + 1
    /\ vista' = _hook_progreso(vista, d)
    /\ UNCHANGED <<modelo, hilos, ui, retorno, lib_calls, expandedVars>>

DescargaReturns ==
  \E w \in HilosIds :
    /\ _descargar_returned(w)
    /\ UNCHANGED <<modelo, vista, ui, retorno, eventos, lib_calls, expandedVars>>

DescargaRaises ==
  \E w \in HilosIds, e \in ErrTexts :
    /\ _descargar_raised(w, e)
    /\ UNCHANGED <<modelo, ui, retorno, eventos, lib_calls, expandedVars>>

NextMin ==
  \/ EstablecerCallbacks
  \/ EscribirUrl
  \/ _on_obtener_info
  \/ _on_descargar_video
  \/ _on_descargar_audio
  \/ ValidarUrlEnds
  \/ InfoEnds
  \/ LibraryHook
  \/ DescargaReturns
  \/ DescargaRaises

\* The minimal version starts as Main.py builds it.
InitMinApp ==
  /\ InitExpanded
  /\ InitUrlIdle
  /\ InitPureIdle
  /\ InitMin

SpecMin == InitMinApp /\ [][NextMin]_vars

(***************************************************************************)
(* Claims on the minimal version and on the threads of both versions.      *)
(***************************************************************************)
HilosRunning == {w \in HilosIds : hilos[w].pc = "download"}

\* C2: in the minimal version a download is not started while another
\* download thread is still running: at most one download thread runs.
C2_OneDownloadThread == Cardinality(HilosRunning) <= 1

\* C6: every blocking library call (extract_info, download) is made on a
\* background worker thread, never on the UI thread.
C6_LibraryCallsOffUiThread == \A c \in lib_calls : c.thread = "worker"

\* C8: in the minimal version no library exception leaves a model operation:
\* when the library raises, validar_url returns False and
\* obtener_informacion_video returns None; a download thread whose library call
\* raises ends normally, having called callback_error with its message when the
\* callback is set and having done nothing else when it is not.
C8_NoLibraryExceptionEscapes ==
  /\ [](/\ retorno.validar_url.value # "raised"
        /\ retorno.validar_url.lib = "error" => retorno.validar_url.value = "False"
        /\ retorno.obtener_informacion_video.lib = "error"
             => retorno.obtener_informacion_video.value = "None"
        /\ \A w \in HilosIds :
             /\ hilos[w].pc \in {"download", "done"}
             /\ hilos[w].result \in ErrTexts =>
                  /\ hilos[w].pc = "done"
                  /\ hilos[w].reported = modelo.callback_error)
  /\ [][DescargaRaises =>
          \E w \in HilosIds, e \in ErrTexts :
            /\ hilos[w].pc = "download"
            /\ hilos'[w].result = e
            /\ IF modelo.callback_error
                 THEN vista'.messagebox =
                        [kind |-> "error", title |-> "Error",
                         message |-> MensajeError(hilos[w].tipo, e)]
                 ELSE UNCHANGED vista]_vars

C8_Witness ==
  /\ retorno.validar_url = [lib |-> "error", value |-> "False"]
  /\ retorno.obtener_informacion_video = [lib |-> "error", value |-> "None"]
  /\ \E w \in HilosIds :
       /\ hilos[w].pc = "done"
       /\ hilos[w].tipo = "audio"
       /\ hilos[w].result = "Unsupported URL"
       /\ hilos[w].reported
  /\ vista.messagebox.message = "Error al descargar audio: Unsupported URL"


(***************************************************************************)
(* Claims on _format_duration and get_ydl_options.                         *)
(***************************************************************************)
\* C11: _format_duration returns the duration as MM:SS, minutes and seconds
\* both in two digits, for every non-negative integer duration, and '00:00' for
\* a zero or missing duration.
C11_FormatDurationMMSS ==
  fd_ret # None =>
    fd_ret = IF fd_duration = NoDuration \/ fd_duration = 0
               THEN "00:00"
               ELSE Format02d(fd_duration \div 60) \o ":" \o Format02d(fd_duration % 60)

\* The five entries of format_map.
KnownFormat(quality, format) ==
  \/ quality = "480p" /\ format = "best[height<=480]"
  \/ quality = "720p" /\ format = "best[height<=720]"
  \/ quality = "1080p" /\ format = "best[height<=1080]"
  \/ quality = "Mejor disponible" /\ format = "best"
  \/ quality = "Audio únicamente" /\ format = "bestaudio/best"

KnownQualities == {"480p", "720p", "1080p", "Mejor disponible", "Audio únicamente"}

\* C12: get_ydl_options maps the five known qualities to their format strings
\* and any other quality to best[height<=720]; when download_type is 'playlist'
\* noplaylist is False and the output template is a file in a per-playlist
\* folder under download_path, and otherwise noplaylist is True and the template
\* is a file directly under download_path.
C12_YdlOptions ==
  opt_ret.returned =>
    LET o == opt_ret.ydl_opts
        a == opt_args
        n == Len(a.download_path)
    IN  /\ IF a.quality \in KnownQualities
             THEN KnownFormat(a.quality, o.format)
             ELSE o.format = "best[height<=720]"
        /\ o.noplaylist <=> (a.download_type # "playlist")
        /\ SubSeq(o.outtmpl, 1, n) = a.download_path
        /\ IF a.download_type = "playlist"
             THEN /\ Len(o.outtmpl) = n + 2
                  /\ o.outtmpl[n + 1] = "%(playlist_title)s"
                  /\ o.outtmpl[n + 2] = "%(playlist_index)02d - %(title)s.%(ext)s"
             ELSE /\ Len(o.outtmpl) = n + 1
                  /\ o.outtmpl[n + 1] = "%(title)s.%(ext)s"

\* A playlist download of a quality that is not in the map.
C12_Witness ==
  /\ opt_ret.returned
  /\ opt_args.quality = "360p"
  /\ opt_args.download_type = "playlist"
  /\ opt_ret.ydl_opts.format = "best[height<=720]"
  /\ ~opt_ret.ydl_opts.noplaylist
  /\ Len(opt_ret.ydl_opts.outtmpl) = Len(opt_args.download_path) + 2

(***************************************************************************)
(* Claims on the worker's callbacks, in the expanded application.          *)
(***************************************************************************)
\* C14: each run of _download_worker invokes exactly one of the completion
\* callback and the error callback: none before the library call has ended,
\* the one for how it ended when it has, once; and the run invokes it before
\* it resets is_downloading in its finally clause.
C14_ExactlyOneCallback ==
  /\ [](\A w \in ThreadIds :
          LET t == threads[w]
          IN  /\ t.pc \in {"start", "download"} => t.notified = None /\ t.result = None
              /\ t.pc \in {"finally", "done"} =>
                   \/ t.result = "ok" /\ t.notified = "completion"
                   \/ t.result \in ErrTexts /\ t.notified = "error")
  /\ [][\A w \in ThreadIds :
          /\ threads'[w].notified # threads[w].notified =>
               /\ threads[w].notified = None
               /\ threads[w].pc = "download"
               /\ threads'[w].pc = "finally"
               /\ UNCHANGED <<is_downloading, current_download_thread>>
          /\ w \in Ending =>
               /\ threads[w].notified \in {"completion", "error"}
               /\ threads'[w].notified = threads[w].notified
               /\ ~is_downloading']_vars

C14_Witness ==
  /\ Len(threads) = 1
  /\ threads[1].pc = "finally"
  /\ threads[1].result = "ok"
  /\ threads[1].notified = "completion"
  /\ dialog = [kind |-> "info", title |-> "Descarga Completada",
               message |-> "Descarga completada exitosamente"]
  /\ is_downloading

(***************************************************************************)
(* Claims on _on_start_download.                                           *)
(***************************************************************************)
\* C16 as stated: whenever the download button is enabled, as
\* set_download_state(False) leaves it, model.is_downloading is False, and so
\* a click on Download is never refused with the dialog 'Descarga en Curso'.
C16_ViewModelConsistent ==
  /\ buttons.download_btn = "normal" => ~is_downloading
  /\ dialog.title # "Descarga en Curso"

\* The view's download state: what set_download_state sets.
DownloadState == <<buttons, progress_bar>>

\* C17: _on_start_download with an empty URL, with a URL validate_url
\* rejects, or while model.is_downloading is True, shows an error dialog and
\* returns: model.start_download is not called, no thread is started, and the
\* view's download state and the model's flag are as before.
C17_RefusedStartTouchesNothing ==
  [][(OnStartDownload /\ (get_url = <<>> \/ ~validate_url(get_url) \/ is_downloading)) =>
       /\ dialog'.kind = "error"
       /\ dialog'.title = IF get_url = <<>> THEN "URL Requerida"
                          ELSE IF ~validate_url(get_url) THEN "URL Inválida"
                          ELSE "Descarga en Curso"
       /\ UNCHANGED <<call, threads, is_downloading, current_download_thread>>
       /\ UNCHANGED <<DownloadState, log_text, ui_thread>>]_vars

\* A click on Download refused because the model is still downloading.
C17_Witness ==
  /\ dialog = [kind |-> "error", title |-> "Descarga en Curso",
               message |-> "Ya hay una descarga en progreso. Espera a que termine o cancélala."]
  /\ is_downloading
  /\ Len(threads) = 1
  /\ call.ret = "True"
  /\ NotDownloadingView

\* A step of _on_start_download that may call model.start_download.
StartHandler == OnStartDownload \/ OnConfirmAnswer

LargePlaylist == current_video_info.has_entries /\ current_video_info.n_entries > 10

\* C19: _on_start_download, when it gets as far as the question, asks it
\* exactly when download_type is 'playlist' and the cached current_video_info
\* has more than 10 entries: a download it asks about is such a playlist, and
\* a download it starts without asking is not; asking changes nothing but the
\* dialog, and when the user declines no download is started and the view's
\* download state and model.is_downloading stay as they are.
C19_ConfirmationForLargePlaylists ==
  /\ [][OnStartDownload =>
          /\ (ui_thread'.pc = "show_question_dialog") =>
                /\ ui_thread'.download_type = "playlist"
                /\ LargePlaylist
                /\ dialog' = ConfirmPlaylist
                /\ UNCHANGED <<DownloadState, is_downloading, current_download_thread,
                               threads, call>>
          /\ (threads' # threads) =>
                ~(call'.args.download_type = "playlist" /\ LargePlaylist)]_vars
  /\ [][(OnConfirmAnswer /\ threads' = threads) =>
          /\ UNCHANGED <<DownloadState, is_downloading, current_download_thread, call>>
          /\ UNCHANGED <<log_text, dialog>>]_vars

\* The user has declined the download of a playlist of 11 videos.
C19_Witness ==
  /\ ui_thread.pc = "idle"
  /\ dialog = ConfirmPlaylist
  /\ current_video_info.n_entries = 11
  /\ threads = <<>>
  /\ call.op = None
  /\ ~is_downloading
  /\ buttons.download_btn = "normal"

\* C20 as stated: whenever _on_start_download consults current_video_info
\* for the confirmation, that metadata was extracted by _on_get_info for the
\* URL that is in the URL field.
C20_InfoIsOfTheUrl ==
  [][OnStartDownload =>
       /\ (ui_thread'.pc = "show_question_dialog") =>
              current_video_info.for_url = get_url
       /\ (threads' # threads /\ call'.args.download_type = "playlist"
             /\ current_video_info # NoVideoInfo) =>
              current_video_info.for_url = call'.args.url]_vars

\* C21 as stated: the methods of the view that change widgets (add_log_message,
\* update_progress, set_download_state, the dialogs) are executed only on the
\* UI thread: no download worker thread has run one of them, whatever the
\* progress, completion and error notifications it has produced.
C21_WidgetsOnlyOnUiThread == view_callers \subseteq {"ui"}
=============================================================================
